---- MODULE Spec2Model ----
(***************************************************************************)
(* Forward pass of the encoder/decoder Transformer of src/main.py.         *)
(*                                                                         *)
(* Tensors are nested sequences (1-based), so a shape is read off the      *)
(* value itself.  Numbers are integers: the learned parameters and the     *)
(* embedding tables come from a small family of integer matrices, layer    *)
(* normalisation is quantised to {-1, 0, 1}, and a softmax weight is the   *)
(* fraction num/den of a fixed-point exponential that underflows to 0 the  *)
(* way the floating-point one does.                                        *)
(***************************************************************************)
EXTENDS Integers, Sequences, FiniteSets, TLC

VARIABLES pc, ctor, model, attn, src, trg, src_mask, trg_mask, act, enc_src,
          layer, calls, log, logits

vars == <<pc, ctor, model, attn, src, trg, src_mask, trg_mask, act, enc_src,
          layer, calls, log, logits>>

(***************************************************************************)
(* Bounds of the model.                                                    *)
(***************************************************************************)
MaxEmbed == 4
MaxHeads == 3
MaxLayers == 2
MaxBatch == 2
MaxLen == 2
MaxAttnLen == 3

(***************************************************************************)
(* Program and platform constants.                                         *)
(***************************************************************************)
\* float("-1e20") of masked_fill.  The model's integers are 32 bits wide, so
\* the fill is scaled down with the scores: it stays far more than
\* ExpUnderflow * sqrt(embed_size) below every score the model computes.
MaskFillValue == -10000
\* exp(x) of a float32 is exactly 0 below about -104.
ExpUnderflow == 104
\* Resolution of the fixed-point exponential: exp(0) = 2^ExpBits.
ExpBits == 6
\* forward_expansion of Transformer.__init__.
ForwardExpansion == 4
\* max_length of Transformer.__init__.
DefaultMaxLength == 100

\* A module that could not be constructed, and an absent (None) mask.
None == [ok |-> FALSE]
NoMask == <<>>
ShapeError == [status |-> "shape_error"]

(***************************************************************************)
(* Arithmetic helpers.                                                     *)
(***************************************************************************)
RECURSIVE SumSeq(_)
SumSeq(s) == IF Len(s) = 0 THEN 0 ELSE s[1] + SumSeq(Tail(s))

RECURSIVE MaxSeq(_)
MaxSeq(s) == IF Len(s) = 1 THEN s[1]
             ELSE LET r == MaxSeq(Tail(s)) IN IF s[1] > r THEN s[1] ELSE r

RECURSIVE Pow2(_)
Pow2(n) == IF n = 0 THEN 1 ELSE 2 * Pow2(n - 1)

Sign(x) == IF x > 0 THEN 1 ELSE IF x < 0 THEN -1 ELSE 0

Dot(a, b) == SumSeq([i \in 1..Len(a) |-> a[i] * b[i]])

\* Round-to-nearest division by a positive denominator.
RoundDiv(a, b) == (2 * a + b) \div (2 * b)

\* Index into a dimension that may be broadcast (size 1).
Bc(i, size) == IF size = 1 THEN 1 ELSE i

\* A tensor of rank 1..4 evaluated once, so that indexing it later does not
\* recompute its elements.
Eager1(t) == t \o <<>>
Eager2(t) == [i \in 1..Len(t) |-> Eager1(t[i])] \o <<>>
Eager3(t) == [i \in 1..Len(t) |-> Eager2(t[i])] \o <<>>
Eager4(t) == [i \in 1..Len(t) |-> Eager3(t[i])] \o <<>>

(***************************************************************************)
(* Shapes.                                                                 *)
(***************************************************************************)
Shape2(t) == <<Len(t), Len(t[1])>>
Shape3(t) == <<Len(t), Len(t[1]), Len(t[1][1])>>
Shape4(t) == <<Len(t), Len(t[1]), Len(t[1][1]), Len(t[1][1][1])>>
Numel3(t) == Len(t) * Len(t[1]) * Len(t[1][1])

\* Element i (1-based, row-major) of a rank-3 tensor.
Flat3(t, i) ==
    LET B == Len(t[1])
        C == Len(t[1][1])
    IN  t[((i - 1) \div (B * C)) + 1][(((i - 1) \div C) % B) + 1][((i - 1) % C) + 1]

\* t.reshape(N, L, H, D) of a rank-3 tensor t (row-major regrouping).
Reshape4(t, N, L, H, D) ==
    [n \in 1..N |-> [l \in 1..L |-> [h \in 1..H |-> [d \in 1..D |->
        Flat3(t, (((n - 1) * L + (l - 1)) * H + (h - 1)) * D + d)]]]]

\* t.reshape(N, L, H * D) of a rank-4 tensor t of shape (N, L, H, D).
Reshape3(t, N, L, E) ==
    LET H == Len(t[1][1])
        D == Len(t[1][1][1])
    IN  [n \in 1..N |-> [l \in 1..L |-> [e \in 1..E |->
            t[n][l][((e - 1) \div D) + 1][((e - 1) % D) + 1]]]]

(***************************************************************************)
(* Learned parameters.  A parameter set names, for each nn.Linear of an    *)
(* attention module, the weight matrix it holds.                           *)
(***************************************************************************)
Mat(kind, rows, cols) ==
    [o \in 1..rows |-> [i \in 1..cols |->
        CASE kind = "id"  -> IF o = i THEN 1 ELSE 0
          [] kind = "neg" -> IF o = i THEN -1 ELSE 0
          [] kind = "rev" -> IF o + i = cols + 1 THEN 1 ELSE 0
          [] kind = "dbl" -> IF o = i THEN 2 ELSE 0]]

ParamSets ==
    << [values |-> "id",  keys |-> "id",  queries |-> "neg", fc_out |-> "id",  bias |-> 0],
       [values |-> "rev", keys |-> "neg", queries |-> "dbl", fc_out |-> "rev", bias |-> 1],
       [values |-> "dbl", keys |-> "rev", queries |-> "id",  fc_out |-> "neg", bias |-> 0] >>

ParamSeeds == 0..(Len(ParamSets) - 1)

ParamsAt(seed, k) == ParamSets[((seed + k) % Len(ParamSets)) + 1]

\* nn.Linear without bias applied to the last dimension of a rank-4 tensor.
Linear4(W, t) ==
    [n \in 1..Len(t) |-> [l \in 1..Len(t[n]) |-> [h \in 1..Len(t[n][l]) |->
        [o \in 1..Len(W) |-> Dot(W[o], t[n][l][h])]]]]

\* nn.Linear with bias applied to the last dimension of a rank-3 tensor.
Linear3(W, b, t) ==
    [n \in 1..Len(t) |-> [l \in 1..Len(t[n]) |->
        [o \in 1..Len(W) |-> Dot(W[o], t[n][l]) + b]]]

(***************************************************************************)
(* SelfAttention.                                                          *)
(***************************************************************************)
\* SelfAttention.__init__: the module, or None when the assertion fails.
NewSelfAttention(embed_size, heads, w) ==
    LET head_dim == embed_size \div heads
    IN  IF head_dim * heads = embed_size
        THEN [ok |-> TRUE, embed_size |-> embed_size, heads |-> heads,
              head_dim |-> head_dim, w |-> w]
        ELSE None

\* torch.einsum("nqhd,nkhd->nhqk", [q, k]).
EinsumQK(q, k) ==
    [n \in 1..Len(q) |-> [h \in 1..Len(q[1][1]) |->
        [i \in 1..Len(q[1]) |-> [j \in 1..Len(k[1]) |->
            Dot(q[n][i][h], k[n][j][h])]]]]

\* A mask can be broadcast against a tensor of the given shape.
Broadcastable(mask, shape) ==
    \A i \in 1..4 : Shape4(mask)[i] \in {1, shape[i]}

\* MaskedFill that fills where the mask is set instead of where it is 0.
MaskedFillInverted(energy, mask) ==
    LET ms == Shape4(mask)
    IN  [n \in 1..Len(energy) |-> [h \in 1..Len(energy[n]) |->
            [q \in 1..Len(energy[n][h]) |-> [k \in 1..Len(energy[n][h][q]) |->
                IF mask[Bc(n, ms[1])][Bc(h, ms[2])][Bc(q, ms[3])][Bc(k, ms[4])] # 0
                THEN MaskFillValue
                ELSE energy[n][h][q][k]]]]]

\* MaskedFill with a fill value that is not far below the scores.
MaskedFillSmall(energy, mask) ==
    LET ms == Shape4(mask)
    IN  [n \in 1..Len(energy) |-> [h \in 1..Len(energy[n]) |->
            [q \in 1..Len(energy[n][h]) |-> [k \in 1..Len(energy[n][h][q]) |->
                IF mask[Bc(n, ms[1])][Bc(h, ms[2])][Bc(q, ms[3])][Bc(k, ms[4])] = 0
                THEN -1
                ELSE energy[n][h][q][k]]]]]

\* energy.masked_fill(mask == 0, float("-1e20")), the mask broadcast.
MaskedFill(energy, mask) ==
    LET ms == Shape4(mask)
    IN  [n \in 1..Len(energy) |-> [h \in 1..Len(energy[n]) |->
            [q \in 1..Len(energy[n][h]) |-> [k \in 1..Len(energy[n][h][q]) |->
                IF mask[Bc(n, ms[1])][Bc(h, ms[2])][Bc(q, ms[3])][Bc(k, ms[4])] = 0
                THEN MaskFillValue
                ELSE energy[n][h][q][k]]]]]

\* The least k >= from with k * sqrt(embed_size) >= |d|.
RECURSIVE CeilScaled(_, _, _)
CeilScaled(d, embed_size, from) ==
    IF from * from * embed_size >= d * d THEN from
    ELSE CeilScaled(d, embed_size, from + 1)

\* exp(d / sqrt(embed_size)) for d <= 0, in units of 2^-ExpBits: exactly 0
\* once d / sqrt(embed_size) is below the underflow threshold, positive above.
ExpQ(d, embed_size) ==
    IF d * d > ExpUnderflow * ExpUnderflow * embed_size
    THEN 0
    ELSE LET k == CeilScaled(d, embed_size, 0)
         IN  IF k >= ExpBits THEN 1 ELSE Pow2(ExpBits - k)

\* softmax(row / sqrt(embed_size)) of one row of scores: the weights are
\* num[k] / den.
SoftmaxRow(row, embed_size) ==
    LET m   == MaxSeq(row)
        num == Eager1([k \in 1..Len(row) |-> ExpQ(row[k] - m, embed_size)])
    IN  [num |-> num, den |-> SumSeq(num)]

\* torch.softmax(energy / (embed_size ** (1/2)), dim=3).
Softmax(energy, embed_size) ==
    [n \in 1..Len(energy) |-> [h \in 1..Len(energy[n]) |->
        [q \in 1..Len(energy[n][h]) |-> SoftmaxRow(energy[n][h][q], embed_size)]]]

\* torch.einsum("nhql,nlhd->nqhd", [attention, values]): the sizes of l must
\* match or be 1, and a size of 1 is broadcast.
EinsumAVOk(attention, values) ==
    LET K == Len(attention[1][1][1].num)
        V == Len(values[1])
    IN  K = V \/ K = 1 \/ V = 1

EinsumAV(attention, values) ==
    LET K == Len(attention[1][1][1].num)
        V == Len(values[1])
        L == IF K > V THEN K ELSE V
    IN  [n \in 1..Len(attention) |-> [q \in 1..Len(attention[1][1]) |->
            [h \in 1..Len(attention[1]) |-> [d \in 1..Len(values[1][1][1]) |->
                RoundDiv(SumSeq([l \in 1..L |->
                             attention[n][h][q].num[Bc(l, K)] * values[n][Bc(l, V)][h][d]]),
                         attention[n][h][q].den)]]]]

\* SelfAttention.forward(values, keys, query, mask).
SelfAttentionForward(self, values, keys, query, mask) ==
    LET N         == Len(query)
        value_len == Len(values[1])
        key_len   == Len(keys[1])
        query_len == Len(query[1])
        H         == self.heads
        D         == self.head_dim
    IN  IF \/ Numel3(values) # N * value_len * H * D
           \/ Numel3(keys) # N * key_len * H * D
           \/ Numel3(query) # N * query_len * H * D
        THEN ShapeError
        ELSE
        LET values4  == Eager4(Reshape4(values, N, value_len, H, D))
            keys4    == Eager4(Reshape4(keys, N, key_len, H, D))
            queries  == Eager4(Reshape4(query, N, query_len, H, D))
            pvalues  == Eager4(Linear4(Mat(self.w.values, D, D), values4))
            pkeys    == Eager4(Linear4(Mat(self.w.keys, D, D), keys4))
            pquery   == Eager4(Linear4(Mat(self.w.queries, D, D), queries))
            \* line 44: the einsum reads queries, the reshaped input, and not
            \* the projection that line 40 has assigned to query.
            energy   == Eager4(EinsumQK(queries, pkeys))
        IN  IF mask # NoMask /\ ~Broadcastable(mask, Shape4(energy))
            THEN ShapeError
            ELSE
            LET filled    == Eager4(IF mask # NoMask THEN MaskedFill(energy, mask) ELSE energy)
                attention == Eager3(Softmax(filled, self.embed_size))
            IN  IF ~EinsumAVOk(attention, pvalues)
                THEN ShapeError
                ELSE
                LET heads_out == Eager4(EinsumAV(attention, pvalues))
                    flat      == Reshape3(heads_out, N, query_len, H * D)
                    out       == Eager3(Linear3(Mat(self.w.fc_out, self.embed_size, H * D),
                                               self.w.bias, flat))
                IN  [status |-> "ok",
                     pvalues |-> pvalues, pkeys |-> pkeys, pquery |-> pquery,
                     energy |-> energy, attention |-> attention,
                     heads_out |-> heads_out, out |-> out]

(***************************************************************************)
(* Embedding tables and masks.                                             *)
(***************************************************************************)
\* Row tok of a word embedding table of width E.
WordRow(tok, E) == [e \in 1..E |-> ((tok + e) % 3) - 1]

\* Row pos of a position embedding table of width E.
PosRow(pos, E) == [e \in 1..E |-> (pos * e) % 2]

\* torch.tril(torch.ones((rows, cols))).
Tril(rows, cols) == [q \in 1..rows |-> [k \in 1..cols |-> IF k <= q THEN 1 ELSE 0]]

\* m.expand(N, 1, rows, cols) of a rank-2 tensor m.
Expand4(m, N) == [n \in 1..N |-> <<m>>]

\* A padding-style mask of shape (N, 1, 1, K) from one row of 0/1 flags.
RowMask(flags, N) == [n \in 1..N |-> << <<flags>> >>]

(***************************************************************************)
(* TransformerBlock, DecoderBlock, Encoder, Decoder.                       *)
(***************************************************************************)
Add3(a, b) ==
    [n \in 1..Len(a) |-> [l \in 1..Len(a[n]) |-> [e \in 1..Len(a[n][l]) |->
        a[n][l][e] + b[n][l][e]]]]

\* nn.LayerNorm over the last dimension, quantised: the sign of the distance
\* of each element to the mean of its row.
LayerNorm(t) ==
    [n \in 1..Len(t) |-> [l \in 1..Len(t[n]) |->
        LET row == t[n][l]
            tot == SumSeq(row)
        IN  [e \in 1..Len(row) |-> Sign(Len(row) * row[e] - tot)]]]

\* nn.Dropout(dropout) with dropout = 0 (Transformer.__init__'s default).
Dropout(t) == t

ReLU(x) == IF x > 0 THEN x ELSE 0

\* Weights of the feed-forward network: forward_expansion stacked blocks of
\* +/- the identity.
FFSign(j, E) == IF ((j - 1) \div E) % 2 = 0 THEN 1 ELSE -1
FFW1(E) == [j \in 1..(ForwardExpansion * E) |-> [i \in 1..E |->
               IF ((j - 1) % E) + 1 = i THEN FFSign(j, E) ELSE 0]]
FFW2(E) == [i \in 1..E |-> [j \in 1..(ForwardExpansion * E) |->
               IF ((j - 1) % E) + 1 = i THEN FFSign(j, E) ELSE 0]]

\* nn.Sequential(Linear(E, f*E), ReLU(), Linear(f*E, E)).
FeedForward(t) ==
    LET E      == Len(t[1][1])
        hidden == Eager3(Linear3(FFW1(E), 0, t))
        active == Eager3([n \in 1..Len(hidden) |-> [l \in 1..Len(hidden[n]) |->
                      [j \in 1..Len(hidden[n][l]) |-> ReLU(hidden[n][l][j])]]])
    IN  Linear3(FFW2(E), 1, active)

\* TransformerBlock.__init__
NewTransformerBlock(embed_size, heads, w) ==
    LET attention == NewSelfAttention(embed_size, heads, w)
    IN  IF attention.ok THEN [ok |-> TRUE, attention |-> attention] ELSE None

\* TransformerBlock.forward, lines 95-97, given x of line 92.
TransformerBlockOut(ret, x) ==
    [status |-> "ok", attention |-> ret,
     out |-> Eager3(Dropout(LayerNorm(Add3(Eager3(FeedForward(x)), x))))]

\* TransformerBlock.forward, lines 91-97, given the attention of line 88.
TransformerBlockTail(ret, query) ==
    IF ret.status # "ok"
    THEN [status |-> ret.status, attention |-> ret]
    ELSE TransformerBlockOut(ret, Eager3(Dropout(LayerNorm(Add3(ret.out, query)))))

\* TransformerBlock.forward(value, key, query, mask)
TransformerBlockForward(self, value, key, query, mask) ==
    TransformerBlockTail(SelfAttentionForward(self.attention, value, key, query, mask),
                         query)

\* DecoderBlock.__init__
NewDecoderBlock(embed_size, heads, w1, w2) ==
    LET attention == NewSelfAttention(embed_size, heads, w1)
        block     == NewTransformerBlock(embed_size, heads, w2)
    IN  IF attention.ok /\ block.ok
        THEN [ok |-> TRUE, attention |-> attention, transformer_block |-> block]
        ELSE None

\* DecoderBlock.forward, line 163, given the block's result.
DecoderBlockOut(ret, query, blk) ==
    IF blk.status # "ok"
    THEN [status |-> blk.status, attention |-> ret, cross |-> blk.attention]
    ELSE [status |-> "ok", attention |-> ret, query |-> query,
          cross |-> blk.attention, out |-> blk.out]

\* DecoderBlock.forward, lines 161-163, given the attention of line 160.
DecoderBlockTail(self, ret, x, value, key, smask) ==
    IF ret.status # "ok"
    THEN [status |-> ret.status, attention |-> ret]
    ELSE LET query == Eager3(Dropout(LayerNorm(Add3(ret.out, x))))
         IN  DecoderBlockOut(ret, query,
                 TransformerBlockForward(self.transformer_block, value, key, query, smask))

\* DecoderBlock.forward(x, value, key, src_mask, trg_mask)
DecoderBlockForward(self, x, value, key, smask, tmask) ==
    DecoderBlockTail(self, SelfAttentionForward(self.attention, x, x, x, tmask),
                     x, value, key, smask)

\* The layers of Encoder.__init__ and of Decoder.__init__.
EncoderLayers(embed_size, num_layers, heads, seed) ==
    [i \in 1..num_layers |-> NewTransformerBlock(embed_size, heads, ParamsAt(seed, i))]

DecoderLayers(embed_size, num_layers, heads, seed) ==
    [i \in 1..num_layers |->
        NewDecoderBlock(embed_size, heads, ParamsAt(seed, i + 1), ParamsAt(seed, i + 2))]

\* Transformer.__init__: the model, or None when a constructor has raised.
NewTransformer(src_vocab_size, trg_vocab_size, src_pad_idx, trg_pad_idx, embed_size, num_layers, heads, max_length, seed) ==
    LET enc == EncoderLayers(embed_size, num_layers, heads, seed)
        dec == DecoderLayers(embed_size, num_layers, heads, seed)
    IN  IF /\ \A i \in 1..num_layers : enc[i].ok
           /\ \A i \in 1..num_layers : dec[i].ok
        THEN [ok |-> TRUE,
              src_vocab_size |-> src_vocab_size, trg_vocab_size |-> trg_vocab_size,
              src_pad_idx |-> src_pad_idx, trg_pad_idx |-> trg_pad_idx,
              embed_size |-> embed_size, num_layers |-> num_layers,
              heads |-> heads, max_length |-> max_length,
              encoder |-> Eager1(enc), decoder |-> Eager1(dec)]
        ELSE None

\* make_src_mask with the comparison inverted.
make_src_mask_inverted(self, s) ==
    [n \in 1..Len(s) |->
        << << [k \in 1..Len(s[n]) |-> IF s[n][k] = self.src_pad_idx THEN 1 ELSE 0] >> >>]

\* Transformer.make_src_mask(src): shape (N, 1, 1, src_len).
make_src_mask(self, s) ==
    [n \in 1..Len(s) |->
        << << [k \in 1..Len(s[n]) |-> IF s[n][k] # self.src_pad_idx THEN 1 ELSE 0] >> >>]

\* make_trg_mask without the lower triangle.
make_trg_mask_full(self, t) ==
    [n \in 1..Len(t) |-> << [q \in 1..Len(t[1]) |-> [k \in 1..Len(t[1]) |-> 1]] >>]

\* make_trg_mask that also masks the positions holding trg_pad_idx.
make_trg_mask_padded(self, t) ==
    [n \in 1..Len(t) |-> << [q \in 1..Len(t[1]) |-> [k \in 1..Len(t[1]) |->
        IF k <= q /\ t[n][k] # self.trg_pad_idx THEN 1 ELSE 0]] >>]

\* Transformer.make_trg_mask(trg): shape (N, 1, trg_len, trg_len).
make_trg_mask(self, t) ==
    LET N       == Shape2(t)[1]
        trg_len == Shape2(t)[2]
    IN  Expand4(Tril(trg_len, trg_len), N)

\* word_embedding(x) + position_embedding(positions), or "index_error" when a
\* token or a position is outside its table.
EmbedOk(x, vocab_size, max_length) ==
    /\ Len(x[1]) <= max_length
    /\ \A n \in 1..Len(x) : \A l \in 1..Len(x[n]) : x[n][l] \in 0..(vocab_size - 1)

Embed(x, E) ==
    [n \in 1..Len(x) |-> [l \in 1..Len(x[n]) |-> [e \in 1..E |->
        WordRow(x[n][l], E)[e] + PosRow(l - 1, E)[e]]]]

\* The arguments of layer(out, out, out, mask) in Encoder.forward.
EncoderLayerArgs(out, mask) ==
    [value |-> out, key |-> out, query |-> out, mask |-> mask]

\* DecoderLayerArgs that passes the decoder's own activations as value and key.
DecoderLayerArgsSelf(x, enc_out, smask, tmask) ==
    [x |-> x, value |-> x, key |-> x, src_mask |-> smask, trg_mask |-> tmask]

\* The arguments of layer(x, enc_out, enc_out, src_mask, trg_mask) in
\* Decoder.forward.
DecoderLayerArgs(x, enc_out, smask, tmask) ==
    [x |-> x, value |-> enc_out, key |-> enc_out, src_mask |-> smask,
     trg_mask |-> tmask]

\* A projection of the decoder output onto embed_size instead of the vocabulary.
DecoderFcOutSquare(x, vocab) ==
    Linear3([v \in 1..Len(x[1][1]) |-> [e \in 1..Len(x[1][1]) |-> ((v + e) % 3) - 1]], 1, x)

\* Decoder.fc_out: nn.Linear(embed_size, trg_vocab_size).
FcOutW(vocab, E) == [v \in 1..vocab |-> [e \in 1..E |-> ((v + e) % 3) - 1]]
DecoderFcOut(x, vocab) == Linear3(FcOutW(vocab, Len(x[1][1])), 1, x)

(***************************************************************************)
(* State machine of one SelfAttention module called directly.              *)
(***************************************************************************)
Codes == {0, 1}

\* Activation tensors of shape (N, L, E) a caller may pass.
PatternTensor(shift, N, L, E) ==
    [n \in 1..N |-> [l \in 1..L |-> WordRow(l + shift + n, E)]]

CodeRows(L) == [1..L -> Codes]

AttnMasks(N, Q, K) ==
    {NoMask}
      \cup {RowMask(f, N) : f \in CodeRows(K)}
      \cup (IF Q = K THEN {Expand4(Tril(Q, K), N)} ELSE {})

NoArgs == [embed_size |-> 0, heads |-> 0, num_layers |-> 0]

InitAttn ==
    /\ pc = "new"
    /\ ctor = NoArgs
    /\ model = None
    /\ attn = None
    /\ src = <<>> /\ trg = <<>>
    /\ src_mask = NoMask /\ trg_mask = NoMask
    /\ act = <<>> /\ enc_src = <<>>
    /\ layer = 0
    /\ calls = <<>>
    /\ log = <<>>
    /\ logits = <<>>

\* attention = SelfAttention(embed_size, heads)
AttnNew ==
    /\ pc = "new"
    /\ \E embed_size \in 1..MaxEmbed, heads \in 1..MaxHeads, seed \in ParamSeeds :
         /\ ctor' = [embed_size |-> embed_size, heads |-> heads, num_layers |-> 0]
         /\ attn' = NewSelfAttention(embed_size, heads, ParamsAt(seed, 0))
         /\ pc' = IF attn'.ok THEN "attn_ready" ELSE "config_error"
    /\ UNCHANGED <<model, src, trg, src_mask, trg_mask, act, enc_src, layer,
                   calls, log, logits>>

\* attention(values, keys, query, mask)
AttnForward ==
    /\ pc = "attn_ready"
    /\ \E N \in {MaxBatch}, value_len \in 1..MaxAttnLen, query_len \in 1..MaxAttnLen,
          key_len \in 1..MaxAttnLen, kshift \in Codes :
         \E mask \in AttnMasks(N, query_len, key_len) :
            LET values == PatternTensor(0, N, value_len, attn.embed_size)
                keys   == PatternTensor(2 * kshift + 1, N, key_len, attn.embed_size)
                query  == PatternTensor(2, N, query_len, attn.embed_size)
            IN  /\ calls' = << [site |-> "direct", layer |-> 0,
                                values |-> values, keys |-> keys, query |-> query,
                                mask |-> mask,
                                ret |-> SelfAttentionForward(attn, values, keys,
                                                             query, mask)] >>
                /\ pc' = IF calls'[1].ret.status = "ok" THEN "attn_done" ELSE "attn_error"
    /\ UNCHANGED <<ctor, model, attn, src, trg, src_mask, trg_mask, act, enc_src,
                   layer, log, logits>>

NextAttn == AttnNew \/ AttnForward

SpecAttn == InitAttn /\ [][NextAttn]_vars

(***************************************************************************)
(* State machine of one Transformer: construction, then one forward call.  *)
(***************************************************************************)
\* The (src_vocab_size, trg_vocab_size) pairs a model is constructed with.
VocabSizes == {<<2, 3>>}
\* The max_length values a model is constructed with.
MaxLengths == {1, DefaultMaxLength}
\* src_pad_idx and trg_pad_idx of the driver.
SrcPadIdx == 0
TrgPadIdx == 0

\* The parameter family a model is initialised with.
InitSeed(embed_size, heads, num_layers) == embed_size + heads + num_layers

\* Source batches: row n is the base row with every token advanced by n - 1.
SrcBatch(base, N, vocab_size) ==
    [n \in 1..N |-> [l \in 1..Len(base) |-> (base[l] + n - 1) % vocab_size]]

\* Target batches.
TrgBatch(shift, N, L, vocab_size) ==
    [n \in 1..N |-> [l \in 1..L |-> (l + shift + n) % vocab_size]]

Init ==
    /\ pc = "start"
    /\ ctor = NoArgs
    /\ model = None
    /\ attn = None
    /\ src = <<>> /\ trg = <<>>
    /\ src_mask = NoMask /\ trg_mask = NoMask
    /\ act = <<>> /\ enc_src = <<>>
    /\ layer = 0
    /\ calls = <<>>
    /\ log = <<>>
    /\ logits = <<>>

\* model = Transformer(src_vocab_size, trg_vocab_size, src_pad_idx, trg_pad_idx,
\*                     embed_size, num_layers, heads=heads)
Construct ==
    /\ pc = "start"
    /\ \E embed_size \in 1..MaxEmbed, heads \in 1..MaxHeads, num_layers \in 0..MaxLayers,
          vocab \in VocabSizes, max_length \in MaxLengths :
         /\ ctor' = [embed_size |-> embed_size, heads |-> heads,
                     num_layers |-> num_layers]
         /\ model' = NewTransformer(vocab[1], vocab[2], SrcPadIdx, TrgPadIdx,
                                    embed_size, num_layers, heads, max_length,
                                    InitSeed(embed_size, heads, num_layers))
         /\ pc' = IF model'.ok THEN "constructed" ELSE "config_error"
    /\ UNCHANGED <<attn, src, trg, src_mask, trg_mask, act, enc_src, layer,
                   calls, log, logits>>

\* Transformer.forward(src, trg), lines 283-286: the two masks.
ForwardMasks ==
    /\ pc = "constructed"
    /\ \E N \in 1..MaxBatch, src_len \in 1..MaxLen, trg_len \in 1..MaxLen, shift \in Codes :
         \E base \in [1..src_len -> 0..(model.src_vocab_size - 1)] :
            /\ src' = SrcBatch(base, N, model.src_vocab_size)
            /\ trg' = TrgBatch(shift, N, trg_len, model.trg_vocab_size)
    /\ src_mask' = make_src_mask(model, src')
    /\ trg_mask' = make_trg_mask(model, trg')
    /\ pc' = "encoder"
    /\ UNCHANGED <<ctor, model, attn, act, enc_src, layer, calls, log, logits>>

\* Encoder.forward, lines 135-141: the embeddings.
EncoderEmbed ==
    /\ pc = "encoder"
    /\ IF EmbedOk(src, model.src_vocab_size, model.max_length)
       THEN /\ act' = Eager3(Dropout(Embed(src, model.embed_size)))
            /\ log' = Append(log, [op |-> "encoder_embed", layer |-> 0, out |-> act'])
            /\ pc' = "encoder_layers"
       ELSE /\ pc' = "index_error"
            /\ UNCHANGED <<act, log>>
    /\ layer' = 0
    /\ UNCHANGED <<ctor, model, attn, src, trg, src_mask, trg_mask, enc_src, calls, logits>>

\* Encoder.forward, lines 144-145: one TransformerBlock.
EncoderLayer ==
    /\ pc = "encoder_layers"
    /\ layer < model.num_layers
    /\ \E args \in {EncoderLayerArgs(act, src_mask)} :
       \E blk \in {TransformerBlockForward(model.encoder[layer + 1], args.value,
                                           args.key, args.query, args.mask)} :
           /\ calls' = << [site |-> "encoder", layer |-> layer + 1,
                           values |-> args.value, keys |-> args.key,
                           query |-> args.query, mask |-> args.mask,
                           ret |-> blk.attention] >>
           /\ IF blk.status = "ok"
              THEN /\ act' = blk.out
                   /\ layer' = layer + 1
                   /\ log' = Append(log, [op |-> "TransformerBlock", layer |-> layer + 1,
                                          args |-> args, out |-> blk.out])
                   /\ pc' = "encoder_layers"
              ELSE /\ pc' = "shape_error"
                   /\ UNCHANGED <<act, layer, log>>
    /\ UNCHANGED <<ctor, model, attn, src, trg, src_mask, trg_mask, enc_src, logits>>

\* Encoder.forward returns (line 147) and Transformer.forward keeps the result
\* (line 289).
EncoderReturn ==
    /\ pc = "encoder_layers"
    /\ layer = model.num_layers
    /\ enc_src' = act
    /\ pc' = "decoder"
    /\ UNCHANGED <<ctor, model, attn, src, trg, src_mask, trg_mask, act, layer, calls,
                   log, logits>>

\* Decoder.forward, lines 199-205: the embeddings.
DecoderEmbed ==
    /\ pc = "decoder"
    /\ IF EmbedOk(trg, model.trg_vocab_size, model.max_length)
       THEN /\ act' = Eager3(Dropout(Embed(trg, model.embed_size)))
            /\ log' = Append(log, [op |-> "decoder_embed", layer |-> 0, out |-> act'])
            /\ pc' = "decoder_layers"
       ELSE /\ pc' = "index_error"
            /\ UNCHANGED <<act, log>>
    /\ layer' = 0
    /\ UNCHANGED <<ctor, model, attn, src, trg, src_mask, trg_mask, enc_src, calls, logits>>

\* Decoder.forward, lines 208-209: one DecoderBlock.
DecoderLayer ==
    /\ pc = "decoder_layers"
    /\ layer < model.num_layers
    /\ \E args \in {DecoderLayerArgs(act, enc_src, src_mask, trg_mask)} :
       \E blk \in {DecoderBlockForward(model.decoder[layer + 1], args.x, args.value,
                                       args.key, args.src_mask, args.trg_mask)} :
           IF blk.status = "ok"
           THEN /\ calls' = << [site |-> "decoder_self", layer |-> layer + 1,
                                values |-> args.x, keys |-> args.x, query |-> args.x,
                                mask |-> args.trg_mask, ret |-> blk.attention],
                               [site |-> "decoder_cross", layer |-> layer + 1,
                                values |-> args.value, keys |-> args.key,
                                query |-> blk.query, mask |-> args.src_mask,
                                ret |-> blk.cross] >>
                /\ act' = blk.out
                /\ layer' = layer + 1
                /\ log' = Append(log, [op |-> "DecoderBlock", layer |-> layer + 1,
                                       args |-> args, out |-> blk.out])
                /\ pc' = "decoder_layers"
           ELSE /\ pc' = "shape_error"
                /\ UNCHANGED <<calls, act, layer, log>>
    /\ UNCHANGED <<ctor, model, attn, src, trg, src_mask, trg_mask, enc_src, logits>>

\* Decoder.forward, lines 212-214: the vocabulary projection, returned by
\* Transformer.forward (line 294).
DecoderOut ==
    /\ pc = "decoder_layers"
    /\ layer = model.num_layers
    /\ logits' = Eager3(DecoderFcOut(act, model.trg_vocab_size))
    /\ log' = Append(log, [op |-> "fc_out", layer |-> 0, args |-> [x |-> act],
                           out |-> logits'])
    /\ pc' = "done"
    /\ UNCHANGED <<ctor, model, attn, src, trg, src_mask, trg_mask, act, enc_src, layer,
                   calls>>

Next ==
    \/ Construct
    \/ ForwardMasks
    \/ EncoderEmbed
    \/ EncoderLayer
    \/ EncoderReturn
    \/ DecoderEmbed
    \/ DecoderLayer
    \/ DecoderOut

Spec == Init /\ [][Next]_vars

(***************************************************************************)
(* Properties.                                                             *)
(***************************************************************************)
\* The mask bit that applies to score [n, h, q, k] of a call (1 without mask).
MaskBit(mask, n, h, q, k) ==
    IF mask = NoMask THEN 1
    ELSE mask[Bc(n, Len(mask))][Bc(h, Len(mask[1]))]
             [Bc(q, Len(mask[1][1]))][Bc(k, Len(mask[1][1][1]))]

CallsAt(sites) == {i \in 1..Len(calls) : calls[i].site \in sites}
Succeeded(c) == c.ret.status = "ok"
KeyLen(c) == Len(c.keys[1])
ValueLen(c) == Len(c.values[1])
QueryLen(c) == Len(c.query[1])
Weights(c, n, h, q) == c.ret.attention[n][h][q]
ForwardFailed == pc \in {"shape_error", "index_error"}

\* C1: a construction with embed_size not divisible by heads ends in the
\* configuration error, so that no forward call follows it, and a construction
\* with embed_size divisible by heads succeeds with head_dim * heads =
\* embed_size in every attention module.
C1_IndivisibleConfigRejected ==
    pc # "start" =>
        IF ctor.embed_size % ctor.heads # 0
        THEN pc = "config_error" /\ ~model.ok
        ELSE /\ pc # "config_error"
             /\ model.ok
             /\ \A i \in 1..model.num_layers :
                  /\ model.encoder[i].attention.head_dim * ctor.heads = ctor.embed_size
                  /\ model.decoder[i].attention.head_dim * ctor.heads = ctor.embed_size

\* C1, with at least one layer: the statement above for num_layers >= 1.
C1_IndivisibleRejectedWithLayers ==
    (pc # "start" /\ ctor.num_layers >= 1) => C1_IndivisibleConfigRejected

\* C2: a forward call fails only on a sequence longer than max_length, and
\* the logits it returns have the shape (N, L_trg, trg_vocab_size).
C2_LogitsShape ==
    /\ ForwardFailed =>
         /\ pc = "index_error"
         /\ Len(src[1]) > model.max_length \/ Len(trg[1]) > model.max_length
    /\ pc = "done" =>
         /\ Len(src) = Len(trg)
         /\ Shape3(logits) = <<Len(trg), Len(trg[1]), model.trg_vocab_size>>

C2_Witness ==
    /\ pc = "done"
    /\ model.num_layers >= 2
    /\ Len(src) >= 2
    /\ Len(src[1]) > Len(trg[1])
    /\ model.trg_vocab_size # model.embed_size

\* C3: in the target self-attention of every decoder layer, the weight of a
\* key position after the query position is exactly 0.
C3_CausalWeightsZero ==
    \A i \in CallsAt({"decoder_self"}) :
        LET c == calls[i]
        IN  /\ Succeeded(c)
            /\ c.mask = trg_mask
            /\ \A n \in 1..Len(c.query), h \in 1..model.heads,
                  q \in 1..QueryLen(c), k \in 1..KeyLen(c) :
                  k > q => Weights(c, n, h, q).num[k] = 0

C3_Witness ==
    \E i \in CallsAt({"decoder_self"}) :
        /\ calls[i].layer = 2
        /\ QueryLen(calls[i]) >= 2
        /\ model.heads >= 2
        /\ Weights(calls[i], 1, 1, 1).num[2] = 0
        /\ Weights(calls[i], 1, 1, 2).num[1] > 0

\* C4: in every encoder self-attention and every decoder cross-attention the
\* mask is 1 exactly at the source positions that do not hold src_pad_idx,
\* and when a source sequence holds a token other than src_pad_idx the weight
\* of each of its padding positions is 0.
C4_PaddingWeightsZero ==
    \A i \in CallsAt({"encoder", "decoder_cross"}) :
        LET c == calls[i]
        IN  /\ Succeeded(c)
            /\ \A n \in 1..Len(src), k \in 1..Len(src[1]) :
                  (MaskBit(c.mask, n, 1, 1, k) = 1) <=> (src[n][k] # model.src_pad_idx)
            /\ \A n \in 1..Len(src) :
                  (\E j \in 1..Len(src[n]) : src[n][j] # model.src_pad_idx) =>
                     \A h \in 1..model.heads, q \in 1..QueryLen(c), k \in 1..KeyLen(c) :
                        src[n][k] = model.src_pad_idx => Weights(c, n, h, q).num[k] = 0

C4_Witness ==
    \E i \in CallsAt({"decoder_cross"}) :
        /\ calls[i].layer = 2
        /\ Len(src[1]) >= 2
        /\ src[1][1] = model.src_pad_idx
        /\ src[1][2] # model.src_pad_idx
        /\ Weights(calls[i], 1, 1, 1).num[1] = 0
        /\ Weights(calls[i], 1, 1, 1).num[2] > 0

\* The only key position of row (n, q) that the mask of a call leaves open.
OnlyOpenKey(c, n, q, k0) ==
    \A k \in 1..KeyLen(c) : (MaskBit(c.mask, n, 1, q, k) # 0) <=> (k = k0)

\* C5: when the mask leaves a single key position k0 open for a query row, the
\* weight of k0 is 1, every other weight is 0, and the row of the weighted
\* sum is value[n, k0, h, :] for every head h.
C5_SingleKeyCopiesValue ==
    \A i \in CallsAt({"direct"}) :
        LET c == calls[i]
        IN  (Succeeded(c) /\ ValueLen(c) = KeyLen(c)) =>
              \A n \in 1..Len(c.query), q \in 1..QueryLen(c), k0 \in 1..KeyLen(c) :
                 OnlyOpenKey(c, n, q, k0) =>
                    \A h \in 1..attn.heads :
                       /\ Weights(c, n, h, q).num[k0] = Weights(c, n, h, q).den
                       /\ \A k \in 1..KeyLen(c) :
                             k # k0 => Weights(c, n, h, q).num[k] = 0
                       /\ c.ret.heads_out[n][q][h] = c.ret.pvalues[n][k0][h]

C5_Witness ==
    \E i \in CallsAt({"direct"}) :
        LET c == calls[i]
        IN  /\ Succeeded(c)
            /\ KeyLen(c) = 2 /\ ValueLen(c) = 2
            /\ OnlyOpenKey(c, 1, 1, 2)
            /\ c.ret.energy[1][1][1][1] > c.ret.energy[1][1][1][2]
            /\ c.ret.pvalues[1][1][1] # c.ret.pvalues[1][2][1]
            /\ c.ret.heads_out[1][1][1] = c.ret.pvalues[1][2][1]

\* C6: every call of SelfAttention.forward with value_len different from
\* key_len ends in a shape error.
C6_LengthMismatchFails ==
    \A i \in CallsAt({"direct"}) :
        ValueLen(calls[i]) # KeyLen(calls[i]) => ~Succeeded(calls[i])

\* C7: a query row whose every key position is masked raises no error and
\* gets the uniform weights 1 / key_len.
C7_AllMaskedUniform ==
    /\ pc # "shape_error"
    /\ \A i \in 1..Len(calls) :
        LET c == calls[i]
        IN  /\ Succeeded(c)
            /\ \A n \in 1..Len(c.query), h \in 1..model.heads, q \in 1..QueryLen(c) :
                  (\A k \in 1..KeyLen(c) : MaskBit(c.mask, n, h, q, k) = 0) =>
                     /\ Weights(c, n, h, q).den > 0
                     /\ \A k \in 1..KeyLen(c) :
                           Weights(c, n, h, q).num[k] * KeyLen(c) = Weights(c, n, h, q).den

C7_Witness ==
    \E i \in CallsAt({"encoder"}) :
        LET c == calls[i]
        IN  /\ KeyLen(c) >= 2
            /\ \A k \in 1..KeyLen(c) : src[1][k] = model.src_pad_idx
            /\ c.ret.energy[1][1][1][1] # c.ret.energy[1][1][1][2]
            /\ Weights(c, 1, 1, 1).num[1] = Weights(c, 1, 1, 1).num[2]

MasksMade == pc \notin {"start", "constructed", "config_error"}

C9_ScoresUseProjectedQuery ==
    \A i \in CallsAt({"direct"}) :
        Succeeded(calls[i]) =>
            calls[i].ret.energy = EinsumQK(calls[i].ret.pquery, calls[i].ret.pkeys)

\* C10: the stages of a forward call run in order: the embeddings of the
\* source, the encoder blocks 1..num_layers, each on the output of the stage
\* before it as value, key and query and with the source mask, the embeddings
\* of the target, the decoder blocks 1..num_layers, each on the output of the
\* stage before it and with the last encoder output as value and key and the
\* two masks, and the vocabulary projection once, last.
StageOk(i) ==
    LET L == model.num_layers
        e == log[i]
    IN  IF i = 1 THEN e.op = "encoder_embed"
        ELSE IF i <= L + 1 THEN
            /\ e.op = "TransformerBlock" /\ e.layer = i - 1
            /\ e.args.value = log[i - 1].out
            /\ e.args.key = log[i - 1].out
            /\ e.args.query = log[i - 1].out
            /\ e.args.mask = src_mask
        ELSE IF i = L + 2 THEN e.op = "decoder_embed"
        ELSE IF i <= 2 * L + 2 THEN
            /\ e.op = "DecoderBlock" /\ e.layer = i - L - 2
            /\ e.args.x = log[i - 1].out
            /\ e.args.value = log[L + 1].out
            /\ e.args.key = log[L + 1].out
            /\ e.args.src_mask = src_mask
            /\ e.args.trg_mask = trg_mask
        ELSE /\ i = 2 * L + 3
             /\ e.op = "fc_out"
             /\ e.args.x = log[i - 1].out
             /\ e.out = logits

C10_StagesInOrder ==
    /\ \A i \in 1..Len(log) : StageOk(i)
    /\ pc = "done" => Len(log) = 2 * model.num_layers + 3

C10_Witness ==
    /\ pc = "done"
    /\ model.num_layers >= 2
    /\ log[3].args.value # log[1].out
    /\ log[5].args.x # log[5].args.value
    /\ log[6].args.x # log[4].out

====
